---- MODULE Spec2Model ----
(***************************************************************************)
(* A model of supervisor_checks/check_runner.py: the CheckRunner main      *)
(* loop (run), the dispatch of one check cycle (_check_processes), the     *)
(* per-process check sequence (_check_and_restart) and the restart         *)
(* transition (_restart_process).                                          *)
(*                                                                         *)
(* The control thread and the pool's worker threads are interleaved one    *)
(* statement group at a time.  The supervisor (the control plane) is the   *)
(* environment: it may change a process's state at any step, and every     *)
(* RPC call either succeeds, raises xmlrpclib.Fault ("fault") or raises    *)
(* another exception such as a socket error ("error").                     *)
(***************************************************************************)
EXTENDS Integers, Sequences, FiniteSets, TLC

(* ---------------------------------------------------------------- bounds *)

\* Number of processes the supervisor knows.
MaxProcs == 2

\* Number of configured checks (len(self._checks)).
NumChecks == 3

\* Number of events the listener delivers before it only blocks.
MaxEvents == 2

\* Number of processes of the pool specification (more than MAX_THREADS).
PoolProcs == 17

(* ------------------------------------------------------------- constants *)

MAX_THREADS == 16

Min(a, b) == IF a < b THEN a ELSE b

TICK_EVENTS == {"TICK_5", "TICK_60", "TICK_3600"}

\* The event kinds the listener may deliver: the ticks and one other kind.
EventKinds == TICK_EVENTS \cup {"PROCESS_STATE"}

\* The name of the process group given to the constructor.
PROCESS_GROUP == "web"

Groups == {PROCESS_GROUP, "other"}

RUNNING == "RUNNING"

\* supervisor.states.ProcessStates, as far as the daemon tells them apart:
\* RUNNING, and states that are not RUNNING.
ProcessStates == {"RUNNING", "STOPPED", "STARTING"}

\* Outcomes of one check call: returns true, returns false, raises.
CheckOutcomes == {"pass", "fail", "raise"}

\* Outcomes of one RPC call: returns, raises xmlrpclib.Fault, raises another
\* exception.
RpcOutcomes == {"ok", "fault", "error"}

(* ----------------------------------------------------------------- state *)

VARIABLES
    stop_event,    \* self._stop_event.is_set()
    ctl,           \* position of the control thread in run()
    event,         \* headers['eventname'] of the event being processed
    received,      \* events returned by listener.wait so far
    acked,         \* listener.ok calls so far
    cycles,        \* _check_processes calls made for the current event
    evAcks,        \* listener.ok calls made for the current event
    runLog,        \* the last line run() logged for the current event
    checks,        \* self._checks: the configured checks, in order
    group,         \* the supervisor's group of each process
    actual,        \* the supervisor's state of each process
    process_specs, \* the list _get_process_spec_list returned this tick
    pooled,        \* TRUE while the ThreadPoolExecutor of this tick exists
    submitted,     \* number of process_specs handed to pool.submit
    queue,         \* the pool's work queue
    numThreads,    \* worker threads the pool has started
    wpc,           \* position of each process's _check_and_restart call
    idx,           \* index of the check the for loop is at
    refetched,     \* state returned by the last getProcessInfo of this tick
    name_spec,     \* name_spec of the _restart_process call in progress
    restartCalls,  \* _restart_process calls for the process in this tick
    stopCalls,     \* stopProcess calls for the process in this tick
    startCalls,    \* startProcess calls for the process in this tick
    nSucceeded,    \* "check succeeded" log lines for the process this tick
    nFailed,       \* "check failed" log lines for the process this tick
    lastLog        \* the last log line the process's worker wrote

ctlVars == <<stop_event, ctl, event, received, acked, cycles, evAcks,
             runLog>>
envVars == <<checks, group, actual>>
poolVars == <<process_specs, pooled, submitted, queue, numThreads>>
workVars == <<wpc, idx, refetched, name_spec, restartCalls, stopCalls,
              startCalls, nSucceeded, nFailed, lastLog>>
vars == <<ctlVars, envVars, poolVars, workVars>>

Procs == DOMAIN group

\* Lines 151-152: make_namespec(group, name), the qualified name group:name.
\* A process's name is its number; no name is that of a group.
make_namespec(group_name, process_name) == <<group_name, process_name>>

\* No _restart_process call is in progress: the local name_spec does not exist.
NoName == <<>>

\* The process the supervisor finds under a qualified name.
Resolve(ns) == CHOOSE q \in Procs : make_namespec(group[q], q) = ns

\* The state of the per-process variables outside a tick.
NoWork(P) ==
    /\ wpc = [p \in P |-> "idle"]
    /\ idx = [p \in P |-> 0]
    /\ refetched = [p \in P |-> "none"]
    /\ name_spec = [p \in P |-> NoName]
    /\ restartCalls = [p \in P |-> 0]
    /\ stopCalls = [p \in P |-> 0]
    /\ startCalls = [p \in P |-> 0]
    /\ nSucceeded = [p \in P |-> 0]
    /\ nFailed = [p \in P |-> 0]
    /\ lastLog = [p \in P |-> "none"]

\* __init__: the stop event is clear, the checks are built from the
\* configuration, nothing has been received.
InitRunner ==
    /\ stop_event = FALSE
    /\ ctl = "loop"
    /\ event = "none"
    /\ received = 0
    /\ acked = 0
    /\ cycles = 0
    /\ evAcks = 0
    /\ runLog = "none"
    /\ process_specs = <<>>
    /\ pooled = FALSE
    /\ submitted = 0
    /\ queue = <<>>
    /\ numThreads = 0

\* The supervisor knows n processes, each of some group and in some state,
\* and k checks are configured.
InitConfig(n, k) ==
    /\ checks = [i \in 1..k |-> i]
    /\ group \in [1..n -> Groups]
    /\ actual \in [1..n -> {"RUNNING", "STOPPED"}]
    /\ NoWork(1..n)

\* Either several processes with a single check, or a single process with
\* several checks.
Init ==
    /\ InitRunner
    /\ InitConfig(MaxProcs, 1) \/ InitConfig(1, NumChecks)

(* ------------------------------------------------- the control thread *)

\* A variant of LoopTest: the loop condition does not read the stop event.
LoopTestBlind ==
    /\ ctl = "loop"
    /\ ctl' = "wait"
    /\ UNCHANGED <<stop_event, event, received, acked, cycles, evAcks,
                   runLog>>
    /\ UNCHANGED <<envVars, poolVars, workVars>>

\* Line 62: the loop condition, and line 82 when it fails.
LoopTest ==
    /\ ctl = "loop"
    /\ ctl' = IF stop_event THEN "done" ELSE "wait"
    /\ UNCHANGED <<stop_event, event, received, acked, cycles, evAcks,
                   runLog>>
    /\ UNCHANGED <<envVars, poolVars, workVars>>

\* childutils.listener.wait(stdin, stdout, waiter=self._stop_event): what the
\* blocked call can do next.  It fails with WaitInterrupted when the waiter
\* is set, and otherwise returns the headers of the next event.
ListenerWait ==
    IF stop_event THEN {"WaitInterrupted"}
    ELSE IF received < MaxEvents THEN EventKinds ELSE {}

\* Lines 65-66 and 74: wait returned the headers of an event.
WaitReturns(kind) ==
    /\ ctl = "wait"
    /\ kind \in ListenerWait \cap EventKinds
    /\ ctl' = "dispatch"
    /\ event' = kind
    /\ received' = received + 1
    /\ cycles' = 0
    /\ evAcks' = 0
    /\ UNCHANGED <<stop_event, acked, runLog>>
    /\ UNCHANGED <<envVars, poolVars, workVars>>

\* A variant of OnWaitInterrupted: the handler logs and does not break, so
\* run() goes on to acknowledge.
OnWaitInterruptedPasses ==
    /\ ctl' = "ack"
    /\ UNCHANGED <<stop_event, event, received, acked, cycles, evAcks,
                   runLog>>

\* A variant of OnWaitInterrupted: the handler clears the stop event and the
\* loop goes on.
OnWaitInterruptedClears ==
    /\ ctl' = "loop"
    /\ stop_event' = FALSE
    /\ UNCHANGED <<event, received, acked, cycles, evAcks, runLog>>

\* Lines 67-72: the handler of WaitInterrupted logs that the check has been
\* told to stop, and breaks out of the loop.
OnWaitInterrupted ==
    /\ ctl' = "interrupted"
    /\ UNCHANGED <<stop_event, event, received, acked, cycles, evAcks,
                   runLog>>

WaitInterrupted ==
    /\ ctl = "wait"
    /\ "WaitInterrupted" \in ListenerWait
    /\ OnWaitInterrupted
    /\ UNCHANGED <<envVars, poolVars, workVars>>

\* Lines 72 and 82: after the break, run() logs 'Done.' and returns.
Break ==
    /\ ctl = "interrupted"
    /\ ctl' = "done"
    /\ UNCHANGED <<stop_event, event, received, acked, cycles, evAcks,
                   runLog>>
    /\ UNCHANGED <<envVars, poolVars, workVars>>

\* A variant of IsTick: every event starts a check cycle.
IsTickAlways(kind) == TRUE

\* Line 75: event_type in TICK_EVENTS.
IsTick(kind) == kind \in TICK_EVENTS

\* Lines 74-78: a tick starts a check cycle, any other event is logged.
\* event_type is not read again.
Dispatch ==
    /\ ctl = "dispatch"
    /\ IF IsTick(event)
         THEN ctl' = "enum" /\ cycles' = cycles + 1 /\ runLog' = runLog
         ELSE /\ ctl' = "ack"
              /\ cycles' = cycles
              /\ runLog' = "unsupported event type"
    /\ event' = "none"
    /\ UNCHANGED <<stop_event, received, acked, evAcks>>
    /\ UNCHANGED <<envVars, poolVars, workVars>>

\* A variant of SpecList: the group of a process is not looked at.
RECURSIVE SpecListAnyGroup(_, _)
SpecListAnyGroup(n, state) ==
    IF n = 0 THEN <<>>
    ELSE LET rest == SpecListAnyGroup(n - 1, state)
         IN  IF actual[n] = state THEN Append(rest, n) ELSE rest

\* A variant of SpecList: the state of a process is not looked at.
RECURSIVE SpecListAnyState(_, _)
SpecListAnyState(n, state) ==
    IF n = 0 THEN <<>>
    ELSE LET rest == SpecListAnyState(n - 1, state)
         IN  IF group[n] = PROCESS_GROUP THEN Append(rest, n) ELSE rest

\* Lines 139-145: the processes of the group that are in the given state, in
\* the order getAllProcessInfo lists them.
RECURSIVE SpecList(_, _)
SpecList(n, state) ==
    IF n = 0 THEN <<>>
    ELSE LET rest == SpecList(n - 1, state)
         IN  IF group[n] = PROCESS_GROUP /\ actual[n] = state
               THEN Append(rest, n) ELSE rest

_get_process_spec_list(state) == SpecList(Cardinality(Procs), state)

\* A variant of _check_processes: every non-empty list gets a pool.
_check_processes_pooled ==
    LET specs == _get_process_spec_list(RUNNING)
    IN  /\ process_specs' = specs
        /\ submitted' = 0
        /\ queue' = <<>>
        /\ numThreads' = 0
        /\ UNCHANGED <<wpc, idx>>
        /\ IF Len(specs) = 0
             THEN /\ ctl' = "ack"
                  /\ pooled' = FALSE
                  /\ runLog' = "no processes in state RUNNING"
             ELSE /\ ctl' = "submit"
                  /\ pooled' = TRUE
                  /\ runLog' = runLog

\* Lines 88-100 with getAllProcessInfo returning: no match logs and returns,
\* one match is checked on the control thread, several matches get a pool.
_check_processes ==
    LET specs == _get_process_spec_list(RUNNING)
    IN  /\ process_specs' = specs
        /\ submitted' = 0
        /\ queue' = <<>>
        /\ numThreads' = 0
        /\ IF Len(specs) = 0
             THEN /\ ctl' = "ack"
                  /\ pooled' = FALSE
                  /\ runLog' = "no processes in state RUNNING"
                  /\ UNCHANGED <<wpc, idx>>
             ELSE IF Len(specs) = 1
               THEN /\ ctl' = "sync"
                    /\ pooled' = FALSE
                    /\ runLog' = runLog
                    /\ wpc' = [wpc EXCEPT ![specs[1]] = "check"]
                    /\ idx' = [idx EXCEPT ![specs[1]] = 1]
               ELSE /\ ctl' = "submit"
                    /\ pooled' = TRUE
                    /\ UNCHANGED <<wpc, idx, runLog>>

\* Line 140 raising: nothing catches the exception in _get_process_spec_list,
\* _check_processes or run, so it leaves run().
EnumerationRaises ==
    /\ ctl' = "crashed"
    /\ UNCHANGED <<poolVars, wpc, idx, runLog>>

Enumerate(res) ==
    /\ ctl = "enum"
    /\ IF res = "ok" THEN _check_processes ELSE EnumerationRaises
    /\ UNCHANGED <<stop_event, event, received, acked, cycles, evAcks>>
    /\ UNCHANGED <<envVars, refetched, name_spec, restartCalls, stopCalls,
                   startCalls, nSucceeded, nFailed, lastLog>>

\* Line 91 returning: the synchronous call for the single match is over.
SyncReturn ==
    /\ ctl = "sync"
    /\ wpc[process_specs[1]] = "finished"
    /\ ctl' = "ack"
    /\ UNCHANGED <<stop_event, event, received, acked, cycles, evAcks,
                   runLog>>
    /\ UNCHANGED <<envVars, poolVars, workVars>>

\* A variant of AdjustThreadCount: a pool sized by the number of submissions.
UncappedThreadCount(n) == n + 1

\* ThreadPoolExecutor(MAX_THREADS), line 94: submit starts a worker thread
\* while fewer than max_workers exist.
AdjustThreadCount(n) == IF n < MAX_THREADS THEN n + 1 ELSE n

\* Lines 95-96: the next process_spec is submitted to the pool.
Submit ==
    /\ ctl = "submit"
    /\ submitted < Len(process_specs)
    /\ submitted' = submitted + 1
    /\ queue' = Append(queue, process_specs[submitted + 1])
    /\ wpc' = [wpc EXCEPT ![process_specs[submitted + 1]] = "queued"]
    /\ numThreads' = AdjustThreadCount(numThreads)
    /\ UNCHANGED <<ctlVars, envVars, process_specs, pooled>>
    /\ UNCHANGED <<idx, refetched, name_spec, restartCalls, stopCalls,
                   startCalls, nSucceeded, nFailed, lastLog>>

\* The calls of _check_and_restart that have begun and not returned.
InFlight ==
    {p \in Procs : wpc[p] \in {"check", "refetch", "branch", "stop", "start"}}

\* A free worker thread takes the oldest work item and calls
\* _check_and_restart(process_spec).
WorkerTakes ==
    /\ pooled
    /\ queue # <<>>
    /\ Cardinality(InFlight) < numThreads
    /\ queue' = Tail(queue)
    /\ wpc' = [wpc EXCEPT ![Head(queue)] = "check"]
    /\ idx' = [idx EXCEPT ![Head(queue)] = 1]
    /\ UNCHANGED <<ctlVars, envVars, process_specs, pooled, submitted,
                   numThreads>>
    /\ UNCHANGED <<refetched, name_spec, restartCalls, stopCalls,
                   startCalls, nSucceeded, nFailed, lastLog>>

\* A variant of PoolDone: the pool is left without waiting for its workers.
PoolNoWait == TRUE

\* The pool's work is over: every submitted call has returned.
PoolDone ==
    \A i \in 1..Len(process_specs) : wpc[process_specs[i]] = "finished"

\* Line 94, leaving the with block: shutdown(wait=True) joins the workers.
PoolExit ==
    /\ ctl = "submit"
    /\ submitted = Len(process_specs)
    /\ PoolDone
    /\ ctl' = "ack"
    /\ pooled' = FALSE
    /\ numThreads' = 0
    /\ UNCHANGED <<stop_event, event, received, acked, cycles, evAcks,
                   runLog>>
    /\ UNCHANGED <<envVars, process_specs, submitted, queue, workVars>>

\* Line 80: listener.ok acknowledges the event; the tick's process_specs and
\* the workers' locals are gone.
Ack ==
    /\ ctl = "ack"
    /\ ctl' = "loop"
    /\ acked' = acked + 1
    /\ evAcks' = evAcks + 1
    /\ process_specs' = <<>>
    /\ submitted' = 0
    /\ wpc' = [p \in Procs |-> "idle"]
    /\ idx' = [p \in Procs |-> 0]
    /\ refetched' = [p \in Procs |-> "none"]
    /\ name_spec' = [p \in Procs |-> NoName]
    /\ restartCalls' = [p \in Procs |-> 0]
    /\ stopCalls' = [p \in Procs |-> 0]
    /\ startCalls' = [p \in Procs |-> 0]
    /\ nSucceeded' = [p \in Procs |-> 0]
    /\ nFailed' = [p \in Procs |-> 0]
    /\ lastLog' = [p \in Procs |-> "none"]
    /\ runLog' = "none"
    /\ UNCHANGED <<stop_event, event, received, cycles>>
    /\ UNCHANGED <<envVars, pooled, queue, numThreads>>

\* Lines 198-204: a handled signal sets the stop event.
_signal_handler ==
    /\ ctl \notin {"done", "crashed"}
    /\ ~stop_event
    /\ stop_event' = TRUE
    /\ UNCHANGED <<ctl, event, received, acked, cycles, evAcks, runLog>>
    /\ UNCHANGED <<envVars, poolVars, workVars>>

(* --------------------------------------------- one _check_and_restart *)

\* The worker of p is at position w of check number i, having logged l.
Work(p, w, i, l) ==
    /\ wpc' = [wpc EXCEPT ![p] = w]
    /\ idx' = [idx EXCEPT ![p] = i]
    /\ lastLog' = [lastLog EXCEPT ![p] = l]

\* Lines 116-118: the check returned true; the loop goes on.
OnCheckPass(p) ==
    /\ Work(p, "check", idx[p] + 1, "check succeeded")
    /\ nSucceeded' = [nSucceeded EXCEPT ![p] = @ + 1]
    /\ UNCHANGED <<restartCalls, nFailed>>

\* A variant of OnCheckFail: the failure is logged and nothing is restarted.
OnCheckFailLogsOnly(p) ==
    /\ Work(p, "check", idx[p] + 1, "check failed")
    /\ nFailed' = [nFailed EXCEPT ![p] = @ + 1]
    /\ UNCHANGED <<restartCalls, nSucceeded>>

\* Lines 111-115: the check returned false; _restart_process is called.
OnCheckFail(p) ==
    /\ Work(p, "refetch", idx[p], "check failed")
    /\ nFailed' = [nFailed EXCEPT ![p] = @ + 1]
    /\ restartCalls' = [restartCalls EXCEPT ![p] = @ + 1]
    /\ UNCHANGED nSucceeded

\* A variant of OnCheckRaise: a check that raises counts as a failed check.
OnCheckRaiseRestarts(p) ==
    /\ Work(p, "refetch", idx[p], "check raised error")
    /\ restartCalls' = [restartCalls EXCEPT ![p] = @ + 1]
    /\ UNCHANGED <<nSucceeded, nFailed>>

\* Lines 119-121: the check raised; the handler logs and the loop goes on.
OnCheckRaise(p) ==
    /\ Work(p, "check", idx[p] + 1, "check raised error")
    /\ UNCHANGED <<restartCalls, nSucceeded, nFailed>>

\* Lines 106-121: one iteration of the for loop, up to the check's outcome.
Check(p, res) ==
    /\ wpc[p] = "check"
    /\ idx[p] <= Len(checks)
    /\ CASE res = "pass" -> OnCheckPass(p)
         [] res = "fail" -> OnCheckFail(p)
         [] res = "raise" -> OnCheckRaise(p)
    /\ UNCHANGED <<ctlVars, envVars, poolVars>>
    /\ UNCHANGED <<refetched, name_spec, stopCalls, startCalls>>

\* Line 106, the loop is exhausted: _check_and_restart returns None.
LoopEnd(p) ==
    /\ wpc[p] = "check"
    /\ idx[p] > Len(checks)
    /\ wpc' = [wpc EXCEPT ![p] = "finished"]
    /\ UNCHANGED <<ctlVars, envVars, poolVars>>
    /\ UNCHANGED <<idx, refetched, name_spec, restartCalls, stopCalls,
                   startCalls, nSucceeded, nFailed, lastLog>>

\* A variant of RestartRaises: the exception ends the call for the process.
RestartRaisesAborts(p) ==
    /\ Work(p, "finished", idx[p], "check raised error")
    /\ refetched' = [refetched EXCEPT ![p] = "none"]
    /\ name_spec' = [name_spec EXCEPT ![p] = NoName]

\* Lines 115 and 119-121: an exception leaving _restart_process is raised
\* inside the try block of the check, so the check's handler logs it and
\* the for loop goes on with the next check.
\* The re-fetched process_spec is a local of _restart_process.
RestartRaises(p) ==
    /\ Work(p, "check", idx[p] + 1, "check raised error")
    /\ refetched' = [refetched EXCEPT ![p] = "none"]
    /\ name_spec' = [name_spec EXCEPT ![p] = NoName]

\* Line 115: _restart_process returned, and _check_and_restart returns.
RestartReturns(p, l) ==
    /\ Work(p, "finished", idx[p], l)
    /\ refetched' = [refetched EXCEPT ![p] = "none"]
    /\ name_spec' = [name_spec EXCEPT ![p] = NoName]

\* A variant of IsRunning: any descriptor at all lets the restart go on.
IsRunningAlways(state) == TRUE

\* Line 157: process_spec[STATE_KEY] is ProcessStates.RUNNING.  The states
\* are small integers, for which "is" and "==" agree in CPython.
IsRunning(state) == state = RUNNING

\* A variant of GetProcessInfo: the restart decides on the descriptor of the
\* enumeration, whose state is RUNNING, without re-fetching it.
GetProcessInfoStale(p, res) ==
    /\ wpc[p] = "refetch"
    /\ wpc' = [wpc EXCEPT ![p] = "stop"]
    /\ lastLog' = [lastLog EXCEPT ![p] = "trying to stop"]
    /\ name_spec' =
         [name_spec EXCEPT ![p] = make_namespec(group[p], p)]
    /\ UNCHANGED <<ctlVars, envVars, poolVars>>
    /\ UNCHANGED <<idx, refetched, restartCalls, stopCalls, startCalls,
                   nSucceeded, nFailed>>

\* Lines 151-156: _restart_process gets its own client and re-fetches the
\* process's descriptor.
GetProcessInfo(p, res) ==
    /\ wpc[p] = "refetch"
    /\ LET ns == make_namespec(group[p], p)
       IN  IF res = "ok"
             THEN /\ name_spec' = [name_spec EXCEPT ![p] = ns]
                  /\ refetched' =
                       [refetched EXCEPT ![p] = actual[Resolve(ns)]]
                  /\ Work(p, "branch", idx[p], lastLog[p])
             ELSE RestartRaises(p)
    /\ UNCHANGED <<ctlVars, envVars, poolVars>>
    /\ UNCHANGED <<restartCalls, stopCalls, startCalls, nSucceeded, nFailed>>

\* Lines 157-158 and 172-173: with the re-fetched state RUNNING the stop is
\* tried, otherwise the restart logs and returns.
RestartBranch(p) ==
    /\ wpc[p] = "branch"
    /\ IF IsRunning(refetched[p])
         THEN /\ Work(p, "stop", idx[p], "trying to stop")
              /\ UNCHANGED <<refetched, name_spec>>
         ELSE RestartReturns(p, "not in RUNNING state")
    /\ UNCHANGED <<ctlVars, envVars, poolVars>>
    /\ UNCHANGED <<restartCalls, stopCalls, startCalls, nSucceeded, nFailed>>

\* A variant of OnStopFault: a Fault of stopProcess ends the restart.
OnStopFaultReturns(p) == RestartReturns(p, "failed to stop")

\* Lines 163-166: the handler of a Fault of stopProcess logs; the start is
\* tried next.
OnStopFault(p) ==
    /\ Work(p, "start", idx[p], "failed to stop")
    /\ UNCHANGED <<refetched, name_spec>>

\* Lines 160-164: stopProcess is called.
StopProcess(p, res) ==
    /\ wpc[p] = "stop"
    /\ stopCalls' = [stopCalls EXCEPT ![p] = @ + 1]
    /\ CASE res = "ok" ->
              /\ Work(p, "start", idx[p], "stopped")
              /\ UNCHANGED <<refetched, name_spec>>
              /\ actual' =
                   [actual EXCEPT ![Resolve(name_spec[p])] = "STOPPED"]
         [] res = "fault" -> OnStopFault(p) /\ UNCHANGED actual
         [] res = "error" -> RestartRaises(p) /\ UNCHANGED actual
    /\ UNCHANGED <<ctlVars, checks, group, poolVars>>
    /\ UNCHANGED <<restartCalls, startCalls, nSucceeded, nFailed>>

\* Lines 169-170: the handler of a Fault of startProcess logs;
\* _restart_process returns.
OnStartFault(p) == RestartReturns(p, "failed to start")

\* Lines 166-170: startProcess(name_spec, False) is called.
StartProcess(p, res) ==
    /\ wpc[p] = "start"
    /\ startCalls' = [startCalls EXCEPT ![p] = @ + 1]
    /\ CASE res = "ok" ->
              /\ RestartReturns(p, "starting")
              /\ actual' =
                   [actual EXCEPT ![Resolve(name_spec[p])] = "STARTING"]
         [] res = "fault" -> OnStartFault(p) /\ UNCHANGED actual
         [] res = "error" -> RestartRaises(p) /\ UNCHANGED actual
    /\ UNCHANGED <<ctlVars, checks, group, poolVars>>
    /\ UNCHANGED <<restartCalls, stopCalls, nSucceeded, nFailed>>

(* ----------------------------------------------------- the supervisor *)

\* The supervisor, or anyone else talking to it, changes a process's state.
SupervisorChanges(p, state) ==
    /\ ctl \notin {"done", "crashed"}
    /\ actual[p] # state
    /\ actual' = [actual EXCEPT ![p] = state]
    /\ UNCHANGED <<ctlVars, checks, group, poolVars, workVars>>

(* ------------------------------------------------------ specification *)

Next ==
    \/ LoopTest
    \/ \E kind \in EventKinds : WaitReturns(kind)
    \/ WaitInterrupted
    \/ Break
    \/ Dispatch
    \/ \E res \in RpcOutcomes : Enumerate(res)
    \/ SyncReturn
    \/ Submit
    \/ WorkerTakes
    \/ PoolExit
    \/ Ack
    \/ _signal_handler
    \/ \E p \in Procs, res \in CheckOutcomes : Check(p, res)
    \/ \E p \in Procs : LoopEnd(p)
    \/ \E p \in Procs, res \in RpcOutcomes : GetProcessInfo(p, res)
    \/ \E p \in Procs : RestartBranch(p)
    \/ \E p \in Procs, res \in RpcOutcomes : StopProcess(p, res)
    \/ \E p \in Procs, res \in RpcOutcomes : StartProcess(p, res)
    \/ \E p \in Procs, state \in ProcessStates : SupervisorChanges(p, state)

Spec == Init /\ [][Next]_vars

\* A step of the control thread, other than the arrival of an event.
ControlStep ==
    \/ LoopTest
    \/ WaitInterrupted
    \/ Break
    \/ Dispatch
    \/ \E res \in RpcOutcomes : Enumerate(res)
    \/ SyncReturn
    \/ Submit
    \/ PoolExit
    \/ Ack

\* A step of the call of _check_and_restart for p.
WorkerStep(p) ==
    /\ p \in Procs
    /\ \/ \E res \in CheckOutcomes : Check(p, res)
       \/ LoopEnd(p)
       \/ \E res \in RpcOutcomes : GetProcessInfo(p, res)
       \/ RestartBranch(p)
       \/ \E res \in RpcOutcomes : StopProcess(p, res)
       \/ \E res \in RpcOutcomes : StartProcess(p, res)

\* The threads are scheduled: the control thread goes on whenever it is not
\* blocked, a free pool worker takes queued work, and a check or an RPC call
\* that has been made returns.  Events and signals need not arrive.
Fairness ==
    /\ WF_vars(ControlStep)
    /\ WF_vars(WorkerTakes)
    /\ \A p \in 1..MaxProcs : WF_vars(WorkerStep(p))

\* The supervisor changes a process's state at a point where the runner is
\* about to read it: before getAllProcessInfo (line 140) answers, or before
\* the getProcessInfo (line 156) of p's restart answers.  A change at any
\* other time is seen by the runner only through the next of these reads.
ObservedChange(p, state) ==
    /\ ctl = "enum" \/ wpc[p] = "refetch"
    /\ SupervisorChanges(p, state)

NextFair ==
    \/ ControlStep
    \/ \E kind \in EventKinds : WaitReturns(kind)
    \/ _signal_handler
    \/ WorkerTakes
    \/ \E p \in Procs : WorkerStep(p)
    \/ \E p \in Procs, state \in ProcessStates : ObservedChange(p, state)

FairSpec == Init /\ [][NextFair]_vars /\ Fairness

\* The pool on its own: one tick for a group of PoolProcs RUNNING processes,
\* more than MAX_THREADS, with no check configured, so that a call of
\* _check_and_restart only begins and returns.
InitPool ==
    /\ InitRunner
    /\ checks = <<>>
    /\ group = [p \in 1..PoolProcs |-> PROCESS_GROUP]
    /\ actual = [p \in 1..PoolProcs |-> RUNNING]
    /\ NoWork(1..PoolProcs)

NextPool ==
    \/ LoopTest
    \/ received = 0 /\ WaitReturns("TICK_60")
    \/ Dispatch
    \/ Enumerate("ok")
    \/ Submit
    \/ WorkerTakes
    \/ \E p \in Procs : LoopEnd(p)
    \/ PoolExit
    \/ Ack

SpecPool == InitPool /\ [][NextPool]_vars

\* The end-to-end scenario: one tick for the group web with 3 RUNNING
\* processes and one configured check, which returns false for one of the
\* processes and true for the others; every RPC call succeeds and the
\* supervisor changes no state on its own.  The check is given by the set of
\* processes it fails for.
InitE2E ==
    /\ InitRunner
    /\ \E f \in 1..3 : checks = <<{f}>>
    /\ group = [p \in 1..3 |-> PROCESS_GROUP]
    /\ actual = [p \in 1..3 |-> RUNNING]
    /\ NoWork(1..3)

\* What the scenario's check at idx[p] returns for p.
E2EVerdict(p) ==
    IF idx[p] \in DOMAIN checks /\ p \in checks[idx[p]] THEN "fail" ELSE "pass"

NextE2E ==
    \/ LoopTest
    \/ received = 0 /\ \E kind \in TICK_EVENTS : WaitReturns(kind)
    \/ WaitInterrupted
    \/ Break
    \/ Dispatch
    \/ Enumerate("ok")
    \/ Submit
    \/ WorkerTakes
    \/ PoolExit
    \/ Ack
    \/ _signal_handler
    \/ \E p \in Procs : Check(p, E2EVerdict(p))
    \/ \E p \in Procs : LoopEnd(p)
    \/ \E p \in Procs : GetProcessInfo(p, "ok")
    \/ \E p \in Procs : RestartBranch(p)
    \/ \E p \in Procs : StopProcess(p, "ok")
    \/ \E p \in Procs : StartProcess(p, "ok")

SpecE2E == InitE2E /\ [][NextE2E]_vars

(* ------------------------------------------------------------- claims *)

\* A step of p's worker that evaluates its next check.
EvaluatesCheck(p) ==
    /\ wpc[p] = "check"
    /\ idx[p] <= Len(checks)
    /\ <<wpc[p], idx[p]>>' # <<wpc[p], idx[p]>>

\* C1: within one tick _restart_process is invoked at most once for a
\* process, so at most one stopProcess and at most one startProcess call is
\* issued for it, whatever the checks and the RPC calls do.
C1_AtMostOneRestart ==
    \A p \in Procs :
        restartCalls[p] <= 1 /\ stopCalls[p] <= 1 /\ startCalls[p] <= 1

\* C2: in a restart whose re-fetched state is not RUNNING, neither
\* stopProcess nor startProcess is called: the restart logs that the process
\* is not in RUNNING state and returns; the stop and the start are only ever
\* reached with a re-fetched state of RUNNING.
C2_SkipUnlessRunning ==
    /\ [](\A p \in Procs :
            wpc[p] \in {"stop", "start"} => refetched[p] = RUNNING)
    /\ [][\A p \in Procs :
            (wpc[p] = "branch" /\ refetched[p] # RUNNING) =>
                /\ wpc'[p] \in {"branch", "finished"}
                /\ stopCalls'[p] = stopCalls[p]
                /\ startCalls'[p] = startCalls[p]
                /\ wpc'[p] = "finished" =>
                       lastLog'[p] = "not in RUNNING state"]_vars

\* C2 witness: a process the enumeration saw RUNNING, whose restart found it
\* not RUNNING and returned without a stop or a start.
C2_Witness ==
    \E p \in Procs :
        /\ wpc[p] = "finished"
        /\ lastLog[p] = "not in RUNNING state"
        /\ restartCalls[p] = 1
        /\ stopCalls[p] = 0
        /\ startCalls[p] = 0

\* C3, as claimed: every stopProcess call hits a process whose actual state
\* is RUNNING at the moment of the call.
C3_StopHitsRunning ==
    [][\A p \in Procs :
         stopCalls'[p] > stopCalls[p] => actual[p] = RUNNING]_vars

\* C3, amended: every stopProcess call is made by a restart whose own
\* getProcessInfo returned the state RUNNING (the actual state may have
\* changed since), one call at a time.
C3_StopAfterRunningRefetch ==
    [][\A p \in Procs :
         stopCalls'[p] > stopCalls[p] =>
             /\ wpc[p] = "stop"
             /\ refetched[p] = RUNNING
             /\ stopCalls'[p] = stopCalls[p] + 1]_vars

\* C3 witness: a stop was called after a re-fetch of RUNNING, and it found
\* the process already stopped.
C3_Witness ==
    \E p \in Procs :
        /\ wpc[p] = "start"
        /\ stopCalls[p] = 1
        /\ refetched[p] = RUNNING
        /\ lastLog[p] = "failed to stop"
        /\ actual[p] = "STOPPED"

\* C4: in a tick with N > 1 matches at most min(16, N) calls of
\* _check_and_restart are in flight at once, each match is submitted once
\* (only a process not yet submitted is queued), and when the pool is left
\* all N have been submitted and have returned.
C4_WorkerCap ==
    /\ [](pooled =>
            Cardinality(InFlight) <= Min(MAX_THREADS, Len(process_specs)))
    /\ [](ctl = "submit" =>
            /\ Len(process_specs) > 1
            /\ \A i \in 1..Len(process_specs) :
                   (wpc[process_specs[i]] = "idle") <=> (i > submitted))
    /\ [][\A p \in Procs :
            (wpc'[p] = "queued" /\ wpc[p] # "queued") => wpc[p] = "idle"]_vars
    /\ []((ctl = "ack" /\ Len(process_specs) > 1) =>
            /\ submitted = Len(process_specs)
            /\ queue = <<>>
            /\ PoolDone)

\* C4 witness: MAX_THREADS calls are in flight while a submitted process
\* still waits in the queue.
C4_Witness ==
    /\ pooled
    /\ Cardinality(InFlight) = MAX_THREADS
    /\ queue # <<>>

\* C5: the checks of a process are evaluated in their declared order, no
\* check is evaluated after one has returned false, and at most one restart
\* is attempted.
C5_OrderAndShortCircuit ==
    /\ [][\A p \in Procs :
            EvaluatesCheck(p) =>
                /\ nFailed[p] = 0
                /\ idx'[p] \in {idx[p], idx[p] + 1}]_vars
    /\ [](\A p \in Procs : restartCalls[p] <= 1)

\* C6: a check that raises is logged, triggers no restart, and the loop goes
\* on to the next check; without a check that returned false there is no
\* restart and no RPC call for the process.
C6_RaiseIsNoVerdict ==
    /\ [](\A p \in Procs :
            nFailed[p] = 0 =>
                /\ restartCalls[p] = 0
                /\ stopCalls[p] = 0
                /\ startCalls[p] = 0
                /\ refetched[p] = "none"
                /\ wpc[p] \in {"idle", "queued", "check", "finished"})
    /\ [][\A p \in Procs :
            (/\ EvaluatesCheck(p)
             /\ nSucceeded'[p] = nSucceeded[p]
             /\ nFailed'[p] = nFailed[p]) =>
                /\ wpc'[p] = "check"
                /\ idx'[p] = idx[p] + 1
                /\ lastLog'[p] = "check raised error"
                /\ restartCalls'[p] = restartCalls[p]]_vars

\* C6 witness: the first check raised, the second was evaluated and passed,
\* and nothing was restarted.
C6_Witness ==
    \E p \in Procs :
        /\ wpc[p] = "check"
        /\ idx[p] = 3
        /\ nSucceeded[p] = 1
        /\ nFailed[p] = 0
        /\ lastLog[p] = "check succeeded"
        /\ restartCalls[p] = 0

\* C7: after a Fault of stopProcess the restart is at its startProcess call,
\* which it makes; after a Fault of startProcess the worker has returned.
C7_StartAfterStopFault ==
    /\ [](\A p \in Procs :
            /\ lastLog[p] = "failed to stop" => wpc[p] = "start"
            /\ lastLog[p] = "failed to start" => wpc[p] = "finished")
    /\ [][\A p \in Procs :
            (wpc[p] = "start" /\ wpc'[p] # "start") =>
                startCalls'[p] = startCalls[p] + 1]_vars

\* C7 witness: stopProcess raised a Fault for a process that was already
\* stopped, and the restart goes on to startProcess.
C7_Witness ==
    \E p \in Procs :
        /\ wpc[p] = "start"
        /\ lastLog[p] = "failed to stop"
        /\ actual[p] = "STOPPED"
        /\ stopCalls[p] = 1
        /\ startCalls[p] = 0

\* C8: no check failure and no RPC failure ends the daemon: run() is left
\* only through its loop, after the stop event has been set.
C8_OnlyTheSignalEndsRun ==
    /\ ctl # "crashed"
    /\ ctl = "done" => stop_event

\* C9: with the stop event set, a blocked wait ends in WaitInterrupted and
\* run() ends without a check cycle, a further wait or a further event, and
\* with every received event acknowledged.
C9_InterruptedWaitEndsRun ==
    /\ [](ctl \in {"interrupted", "done"} =>
            stop_event /\ acked = received)
    /\ [][(ctl = "wait" /\ stop_event /\ ctl' # "wait") =>
            /\ ctl' = "interrupted"
            /\ UNCHANGED <<received, acked, cycles, workVars>>]_vars
    /\ [][ctl = "interrupted" =>
            /\ ctl' \in {"interrupted", "done"}
            /\ UNCHANGED <<received, acked, cycles, workVars>>]_vars
    /\ [][ctl = "done" => UNCHANGED <<ctlVars, poolVars, workVars>>]_vars

\* C9 witness: the wait was interrupted after an event had been received.
C9_Witness ==
    /\ ctl = "interrupted"
    /\ received >= 1

\* C10: an event that is no tick starts no check cycle, is acknowledged once
\* and the loop goes on; a tick starts exactly one check cycle.
C10_OnlyTicksStartCycles ==
    /\ [][(ctl = "dispatch" /\ ctl' # "dispatch") =>
            IF event \in TICK_EVENTS
              THEN ctl' = "enum" /\ cycles' = 1
              ELSE /\ ctl' = "ack"
                   /\ cycles' = 0
                   /\ UNCHANGED <<poolVars, workVars>>]_vars
    /\ [](cycles <= 1 /\ evAcks <= 1)
    /\ [](ctl \in {"enum", "sync", "submit"} => cycles = 1)
    /\ []((cycles = 0 /\ ctl # "dispatch") =>
            /\ process_specs = <<>>
            /\ \A p \in Procs : wpc[p] = "idle" /\ lastLog[p] = "none")
    /\ [][(ctl = "ack" /\ ctl' # "ack") =>
            ctl' = "loop" /\ evAcks' = 1]_vars
    /\ [](ctl \in {"loop", "wait"} => evAcks = (IF received = 0 THEN 0 ELSE 1))

\* C10 witness: an event that is no tick has been acknowledged without a
\* check cycle, and the loop goes on.
C10_Witness ==
    /\ ctl = "wait"
    /\ received >= 1
    /\ cycles = 0
    /\ evAcks = 1

\* C11: every event the wait returned gets exactly one acknowledgement,
\* written after its processing and before the next wait, and there is no
\* acknowledgement without an event: whenever run() is not processing an
\* event, as many acknowledgements as events have been written, and while
\* it is processing one, exactly that one is outstanding.
C11_OneAckPerEvent ==
    /\ acked <= received
    /\ received <= acked + 1
    /\ ctl \in {"loop", "wait", "interrupted", "done", "crashed"} =>
           acked = received
    /\ ctl \in {"dispatch", "enum", "sync", "submit", "ack"} =>
           received = acked + 1

\* Everything the worker of q holds, and the supervisor's state of q.
WorkerOf(q) ==
    <<wpc[q], idx[q], refetched[q], name_spec[q], restartCalls[q],
      stopCalls[q], startCalls[q], nSucceeded[q], nFailed[q], lastLog[q],
      actual[q]>>

\* The call for p went through its check sequence: the loop was exhausted,
\* or one of p's own checks returned false.
SequenceDone(p) ==
    /\ wpc[p] = "finished"
    /\ idx[p] > Len(checks) \/ nFailed[p] >= 1

\* C12: in a tick with several matches a step of one process's worker
\* (whatever its checks and RPC calls do) changes nothing of another
\* process's worker, every match has gone through its check sequence when
\* the cycle returns, and outside the cycle no call is in flight or queued.
C12_IsolatedWorkers ==
    /\ [][\A p \in InFlight :
            (wpc'[p] # wpc[p] \/ idx'[p] # idx[p]) =>
                \A q \in Procs \ {p} : WorkerOf(q)' = WorkerOf(q)]_vars
    /\ [](ctl = "ack" =>
            \A i \in 1..Len(process_specs) : SequenceDone(process_specs[i]))
    /\ [](ctl \notin {"sync", "submit"} => InFlight = {} /\ queue = <<>>)

\* C12 witness: a cycle of two matches is over; one process failed its check
\* and its startProcess raised a Fault, the other passed its check.
C12_Witness ==
    /\ ctl = "ack"
    /\ Len(process_specs) = 2
    /\ \E p, q \in Procs :
          /\ p # q
          /\ lastLog[p] = "failed to start"
          /\ stopCalls[p] = 1
          /\ nSucceeded[q] = 1
          /\ wpc[q] = "finished"

\* The supervisor lists no process that is in the group and RUNNING.
NoMatch ==
    \A p \in Procs : ~(group[p] = PROCESS_GROUP /\ actual[p] = RUNNING)

\* C13: a tick whose enumeration holds no RUNNING process of the group logs
\* the no-processes message, evaluates no check, issues no getProcessInfo,
\* stopProcess or startProcess, and returns, so that the event is
\* acknowledged.
C13_NoMatchNoAction ==
    /\ [][(ctl = "enum" /\ ctl' \notin {"enum", "crashed"} /\ NoMatch) =>
            /\ ctl' = "ack"
            /\ runLog' = "no processes in state RUNNING"
            /\ process_specs' = <<>>
            /\ ~pooled'
            /\ UNCHANGED workVars]_vars
    /\ [](runLog = "no processes in state RUNNING" =>
            /\ ctl = "ack"
            /\ \A p \in Procs :
                  /\ wpc[p] = "idle"
                  /\ lastLog[p] = "none"
                  /\ refetched[p] = "none"
                  /\ restartCalls[p] = 0
                  /\ stopCalls[p] = 0
                  /\ startCalls[p] = 0)
    /\ [][(runLog = "no processes in state RUNNING" /\ ctl' # ctl) =>
            ctl' = "loop" /\ acked' = acked + 1]_vars

\* C13 witness: the cycle found no match although the group has a process
\* that is not RUNNING and another group has a RUNNING process.
C13_Witness ==
    /\ ctl = "ack"
    /\ runLog = "no processes in state RUNNING"
    /\ \E p, q \in Procs :
          /\ group[p] = PROCESS_GROUP /\ actual[p] = "STOPPED"
          /\ group[q] # PROCESS_GROUP /\ actual[q] = RUNNING

\* The processes of the group the supervisor has RUNNING.
Matches == {p \in Procs : group[p] = PROCESS_GROUP /\ actual[p] = RUNNING}

\* C14: with exactly one match _check_and_restart runs on the control
\* thread, which goes on only when the call has returned, and no pool is
\* created; a pool exists only for two or more matches.
C14_SingleMatchIsSynchronous ==
    /\ [][(/\ ctl = "enum"
           /\ ctl' \notin {"enum", "crashed"}
           /\ Cardinality(Matches) = 1) =>
            /\ ctl' = "sync"
            /\ ~pooled'
            /\ numThreads' = 0
            /\ queue' = <<>>
            /\ \A p \in Matches : process_specs' = <<p>> /\ wpc'[p] = "check"]_vars
    /\ [](ctl = "sync" =>
            /\ Len(process_specs) = 1
            /\ ~pooled
            /\ numThreads = 0
            /\ queue = <<>>
            /\ submitted = 0)
    /\ [](pooled => Len(process_specs) >= 2 /\ ctl = "submit")
    /\ [][ctl = "sync" =>
            /\ ctl' \in {"sync", "ack"}
            /\ ctl' = "ack" => wpc[process_specs[1]] = "finished"]_vars

\* C14 witness: the restart of the single match runs on the control thread.
C14_Witness ==
    /\ ctl = "sync"
    /\ ~pooled
    /\ wpc[process_specs[1]] = "start"

\* The sum of a per-process counter over the processes 1..n.
RECURSIVE Total(_, _)
Total(f, n) == IF n = 0 THEN 0 ELSE f[n] + Total(f, n - 1)

\* C15: in the end-to-end scenario, under every interleaving of the three
\* workers, the cycle ends with exactly one stopProcess and one startProcess,
\* both for the process whose check failed, 2 "check succeeded" lines and 1
\* "check failed" line, none of these counts is ever exceeded, and the run
\* writes exactly one acknowledgement.
C15_EndToEnd ==
    /\ \A p \in Procs :
          /\ stopCalls[p] <= (IF p \in checks[1] THEN 1 ELSE 0)
          /\ startCalls[p] <= (IF p \in checks[1] THEN 1 ELSE 0)
          /\ nFailed[p] <= (IF p \in checks[1] THEN 1 ELSE 0)
          /\ nSucceeded[p] <= (IF p \in checks[1] THEN 0 ELSE 1)
    /\ ctl = "ack" =>
          /\ Total(stopCalls, Cardinality(Procs)) = 1
          /\ Total(startCalls, Cardinality(Procs)) = 1
          /\ \A p \in checks[1] : stopCalls[p] = 1 /\ startCalls[p] = 1
          /\ Total(nSucceeded, Cardinality(Procs)) = 2
          /\ Total(nFailed, Cardinality(Procs)) = 1
    /\ acked <= 1
    /\ (received = 1 /\ ctl \in {"loop", "wait", "interrupted", "done"}) =>
          acked = 1

\* C15 witness: the cycle of the scenario is over and about to be
\* acknowledged, the failing process having been stopped and started.
C15_Witness ==
    /\ ctl = "ack"
    /\ Len(process_specs) = 3
    /\ \E p \in Procs :
          /\ stopCalls[p] = 1
          /\ startCalls[p] = 1
          /\ actual[p] = "STARTING"
    /\ Total(nSucceeded, Cardinality(Procs)) = 2

\* The positions of the control thread from which the stop event, once set,
\* is next read by the loop condition.
InCycle == {"sync", "submit", "ack", "loop"}

\* C16: setting the stop event during a check cycle cancels nothing: the
\* step that sets it changes no worker, a worker in flight leaves only by
\* returning, the event is acknowledged with every call returned, and run()
\* then ends at the loop condition without entering another wait.
C16_NoCancellation ==
    /\ [][(stop_event' /\ ~stop_event) =>
            UNCHANGED <<ctl, poolVars, workVars, acked>>]_vars
    /\ [][\A p \in InFlight :
            wpc'[p] \in {"check", "refetch", "branch", "stop", "start",
                         "finished"}]_vars
    /\ []((stop_event /\ ctl = "ack") =>
            \A i \in 1..Len(process_specs) : SequenceDone(process_specs[i]))
    /\ [][(stop_event /\ ctl \in InCycle) =>
            /\ ctl' \in InCycle \cup {"done"}
            /\ ctl' = "done" => (ctl = "loop" /\ acked = received)]_vars
    /\ (stop_event /\ ctl \in {"sync", "submit"}) ~>
            (ctl = "done" /\ acked = received)

\* C16 witness: the stop event is set while a restart of the tick's pool has
\* issued its stopProcess and not yet its startProcess.
C16_Witness ==
    /\ stop_event
    /\ ctl = "submit"
    /\ \E p \in Procs : wpc[p] = "start" /\ stopCalls[p] = 1

\* run() has ended: it returned, or an exception left it.
Terminated == ctl \in {"done", "crashed"}

\* C18: the stop event starts false, the signal handler can set it as long as
\* run() has not ended, no step resets it, once it is set no event is received
\* and no check cycle starts outside the event already being processed, and
\* run() eventually ends.
C18_StopIsMonotonicAndEndsRun ==
    /\ ~stop_event
    /\ []((~stop_event /\ ~Terminated) => ENABLED _signal_handler)
    /\ [][stop_event => stop_event']_vars
    /\ [][stop_event => received' = received]_vars
    /\ [][(stop_event /\ ctl \in {"loop", "wait", "interrupted"}) =>
            (cycles' = cycles /\ acked' = acked /\ ctl' # "dispatch")]_vars
    /\ stop_event ~> Terminated

\* C18 witness: run() returned with the stop event set, the one event it
\* received acknowledged.
C18_Witness ==
    /\ stop_event
    /\ ctl = "done"
    /\ received = 1
    /\ acked = 1

\* The call for p ended in OK: no check returned false and no RPC was issued.
PathOK(p) ==
    /\ nFailed[p] = 0
    /\ restartCalls[p] = 0
    /\ stopCalls[p] = 0
    /\ startCalls[p] = 0

\* The call for p ended in SKIPPED: one restart, whose re-fetched state was
\* not RUNNING, and neither a stop nor a start.
PathSkipped(p) ==
    /\ restartCalls[p] = 1
    /\ lastLog[p] = "not in RUNNING state"
    /\ stopCalls[p] = 0
    /\ startCalls[p] = 0

\* The call for p ended in DONE: one restart with one stop attempt and then
\* one start attempt.
PathDone(p) ==
    /\ restartCalls[p] = 1
    /\ stopCalls[p] = 1
    /\ startCalls[p] = 1
    /\ lastLog[p] \in {"starting", "failed to start"}

\* C17: every picked-up process has returned when the tick's cycle returns,
\* and a returned call followed one of the three paths OK, SKIPPED and DONE;
\* a start is never issued without a stop attempt before it, and a stop
\* attempt is followed by a start attempt before the call returns.
C17_ThreePaths ==
    /\ ctl = "ack" =>
         \A i \in 1..Len(process_specs) : wpc[process_specs[i]] = "finished"
    /\ \A p \in Procs :
         /\ startCalls[p] <= stopCalls[p]
         /\ wpc[p] = "finished" =>
              /\ PathOK(p) \/ PathSkipped(p) \/ PathDone(p)
              /\ stopCalls[p] = startCalls[p]

\* The worker of p has been given work in this tick, or has left a trace of
\* a check or an RPC call.
Touched(p) ==
    \/ wpc[p] # "idle"
    \/ idx[p] # 0
    \/ name_spec[p] # NoName
    \/ restartCalls[p] + stopCalls[p] + startCalls[p] > 0
    \/ nSucceeded[p] + nFailed[p] > 0

\* The processes of the tick's list.
Listed(specs) == {specs[i] : i \in 1..Len(specs)}

\* C19: the list of a tick holds exactly the processes that the enumeration
\* reported in the configured group and in state RUNNING; only listed
\* processes are checked or made the subject of an RPC call; and the calls of
\* a restart carry the qualified name of the process whose check failed and
\* change the state of no other process.
C19_OnlyEnumeratedRunning ==
    /\ [][(ctl = "enum" /\ ctl' \in {"sync", "submit", "ack"}) =>
            Listed(process_specs') =
              {q \in Procs : group[q] = PROCESS_GROUP
                               /\ actual[q] = RUNNING}]_vars
    /\ [](\A p \in Procs :
            /\ Touched(p) =>
                 (p \in Listed(process_specs) /\ group[p] = PROCESS_GROUP)
            /\ wpc[p] \in {"branch", "stop", "start"} =>
                 /\ name_spec[p] = make_namespec(group[p], p)
                 /\ Resolve(name_spec[p]) = p)
    /\ [][\A p \in Procs :
            (stopCalls'[p] > stopCalls[p] \/ startCalls'[p] > startCalls[p])
              => \A q \in Procs \ {p} : actual'[q] = actual[q]]_vars

\* C19 witness: a restart has stopped a process of the group under its
\* qualified name while a RUNNING process of another group is left alone.
C19_Witness ==
    \E p, q \in Procs :
        /\ wpc[p] = "start"
        /\ stopCalls[p] = 1
        /\ name_spec[p] = <<PROCESS_GROUP, p>>
        /\ group[q] # PROCESS_GROUP
        /\ actual[q] = RUNNING
        /\ ~Touched(q)

\* C20: when the getProcessInfo of a restart raises, the worker goes on with
\* the next check of the same process, having logged a check error and
\* issued neither a stop nor a start, and nothing else changes.
C20_RefetchErrorIsACheckError ==
    [][\A p \in Procs :
         (wpc[p] = "refetch" /\ wpc'[p] \notin {"refetch", "branch"}) =>
            /\ wpc'[p] = "check"
            /\ idx'[p] = idx[p] + 1
            /\ lastLog'[p] = "check raised error"
            /\ stopCalls'[p] = stopCalls[p]
            /\ startCalls'[p] = startCalls[p]
            /\ UNCHANGED <<ctlVars, envVars, poolVars>>]_vars

\* C20 witness: after a re-fetch that raised, the worker is at the second
\* check of the process with no stop and no start issued.
C20_Witness ==
    \E p \in Procs :
        /\ wpc[p] = "check"
        /\ idx[p] = 2
        /\ idx[p] <= Len(checks)
        /\ restartCalls[p] = 1
        /\ stopCalls[p] = 0
        /\ startCalls[p] = 0
        /\ lastLog[p] = "check raised error"

====
